---- MODULE Spec2Model ----
(***************************************************************************)
(* Day 8 of the puzzle collection: the periodic-directive graph walker.    *)
(* A puzzle is parsed from text (Puzzle::from_str), walked by              *)
(* count_simultanious_steps_until, analysed per token by get_puzzle_loops  *)
(* and the cycle lengths are combined by get_lowest_product.               *)
(*                                                                         *)
(* A string is a sequence of one-character strings, so that ends_with and  *)
(* the regular expression of parse_direction_line are computed.            *)
(*                                                                         *)
(* Day 4, the scratch cards: compute_card_count works off a queue of card  *)
(* indices, one loop iteration per step.                                   *)
(*                                                                         *)
(* Day 9, the difference pyramid: compute_diff_pyramid pushes one row per  *)
(* step, and the two extrapolations read the last or first value of each   *)
(* row.                                                                    *)
(***************************************************************************)
EXTENDS Integers, Sequences, FiniteSets, TLC

VARIABLES
    input,      \* the text handed to Puzzle::from_str, as its lines
    puzzle,     \* Option<Puzzle>: None, or Some([map, directions])
    pc,         \* "start", "ready", "walk", "returned", "done", "panic"
    op,         \* the entry point that is running
    froms,      \* count_simultanious_steps_until: froms
    check,      \* which check_fn closure the running walk was given
    tos,        \* the target slice captured by the closure of count_simultanious_steps
    first,      \* the captured flag of the closure of the analyser's second walk
    currents,   \* count_simultanious_steps_until: currents
    steps,      \* count_simultanious_steps_until: steps
    starts,     \* get_puzzle_loops: starts
    idx,        \* get_puzzle_loops: position of the for loop in starts (1-based)
    phase,      \* get_puzzle_loops: 1 in the first walk of a token, 2 in the second
    res,        \* get_puzzle_loops: res
    z_val,      \* get_puzzle_loops: z_val
    z_steps,    \* get_puzzle_loops: steps (of the first walk)
    ret,        \* what the entry point returned, or the panic that ended it
    vals,       \* get_lowest_product: vals
    out,        \* get_lowest_product: what it returned (main prints it)
    cards,              \* day_4 compute_card_count: cards
    cards_to_process,   \* day_4 compute_card_count: cards_to_process
    cards_processed,    \* day_4 compute_card_count: cards_processed
    h_vals,             \* day_9 compute_diff_pyramid: vals
    h_steps             \* day_9 compute_diff_pyramid: steps

\* the locals of day_4
card_vars == <<cards, cards_to_process, cards_processed>>

\* the locals of day_9
hist_vars == <<h_vals, h_steps>>

vars == <<input, puzzle, pc, op, froms, check, tos, first, currents, steps,
          starts, idx, phase, res, z_val, z_steps, ret, vals, out, card_vars,
          hist_vars>>

----------------------------------------------------------------------------
(* Bounds of the model. *)

\* the longest walk the model follows: a walk that has not returned after
\* MaxSteps steps is left running
MaxSteps == 6
\* the most start nodes handed to one call on the three-node graphs
MaxTokens == 2
\* the longest ring of the ring graphs
MaxRing == 2
\* the largest length, and the most lengths, handed to get_lowest_product alone
MaxVal == 8
MaxVals == 3
\* how far a token's trajectory is followed when a recorded cycle length is
\* compared with it
MaxT == 12

----------------------------------------------------------------------------
(* Option, Result and panics. *)

None == [tag |-> "None"]
Some(v) == [tag |-> "Some", val |-> v]
Ok(v) == [tag |-> "Ok", val |-> v]
Err(kind, args) == [tag |-> "Err", kind |-> kind, args |-> args]
Panic(msg) == [tag |-> "Panic", msg |-> msg]
\* a plain value returned (a usize)
Value(v) == [tag |-> "Value", val |-> v]

----------------------------------------------------------------------------
(* Direction and Map. *)

from_char(ch) ==
    CASE ch = "L" -> Some("Left")
      [] ch = "R" -> Some("Right")
      [] OTHER -> None

EmptyMap == [k \in {} |-> <<>>]

add_direction(m, from, left, right) ==
    [k \in (DOMAIN m) \cup {from} |-> IF k = from THEN <<left, right>> ELSE m[k]]

\* `&self.directions[from]` panics when the key is absent
step_panics(m, from) == from \notin DOMAIN m

\* the two elements of the pair selected the other way round
step_swapped(m, from, direction) ==
    IF direction = "Left" THEN m[from][2] ELSE m[from][1]

step(m, from, direction) ==
    LET options == m[from]
    IN  IF direction = "Left" THEN options[1] ELSE options[2]

\* the unanchored regex (?<from>.{3}) = \((?<left>.{3}), (?<right>.{3})\)
\* matches at offset i of the line
re_matches_at(line, i) ==
    /\ i >= 1
    /\ i + 15 <= Len(line)
    /\ SubSeq(line, i + 3, i + 6) = <<" ", "=", " ", "(">>
    /\ SubSeq(line, i + 10, i + 11) = <<",", " ">>
    /\ line[i + 15] = ")"

parse_direction_line(line) ==
    LET hits == {i \in 1..Len(line) : re_matches_at(line, i)}
    IN  IF hits = {} THEN None
        ELSE LET i == CHOOSE h \in hits : \A g \in hits : h <= g
             IN  Some(<<SubSeq(line, i, i + 2),
                        SubSeq(line, i + 7, i + 9),
                        SubSeq(line, i + 12, i + 14)>>)

\* Ok(the map with the line's entry added) or Err
add_direction_line(m, line) ==
    LET p == parse_direction_line(line)
    IN  IF p.tag = "Some"
        THEN Ok(add_direction(m, p.val[1], p.val[2], p.val[3]))
        ELSE Err("()", <<>>)

RECURSIVE add_lines(_, _)
\* the map after add_direction_line over the lines in order, None at the
\* first line that fails
add_lines(m, lines) ==
    IF lines = <<>> THEN Some(m)
    ELSE LET r == add_direction_line(m, Head(lines))
         IN  IF r.tag = "Ok" THEN add_lines(r.val, Tail(lines)) ELSE None

from_str(s) ==
    IF s = <<>> THEN None
    ELSE LET parsed == [i \in 1..Len(s[1]) |-> from_char(s[1][i])]
         IN  IF \E i \in 1..Len(s[1]) : parsed[i].tag = "None" THEN None
             ELSE LET directions == [i \in 1..Len(s[1]) |-> parsed[i].val]
                      m == add_lines(EmptyMap, SubSeq(s, 3, Len(s)))
                  IN  IF m.tag = "None" THEN None
                      ELSE Some([map |-> m.val, directions |-> directions])

ends_with(s, ch) == Len(s) > 0 /\ s[Len(s)] = ch

----------------------------------------------------------------------------
(* The input texts. *)

Chars(n) == <<"0", "1", "2", "3", "4", "5", "6", "7", "8", "9">>[n + 1]

render_line(from, left, right) ==
    from \o <<" ", "=", " ", "(">> \o left \o <<",", " ">> \o right \o <<")">>

RECURSIVE render_map(_, _)
\* one line per key of m, in the order of the sequence keys
render_map(m, keys) ==
    IF keys = <<>> THEN <<>>
    ELSE (IF Head(keys) \in DOMAIN m
          THEN <<render_line(Head(keys), m[Head(keys)][1], m[Head(keys)][2])>>
          ELSE <<>>) \o render_map(m, Tail(keys))

render_puzzle(tape, m, keys) == <<tape, <<>>>> \o render_map(m, keys)

\* every graph, total or partial, over three node names, under a tape of
\* length one and a tape of length two
N11A == <<"1", "1", "A">>
N11Z == <<"1", "1", "Z">>
N22Z == <<"2", "2", "Z">>
SmallNames == <<N11A, N11Z, N22Z>>
SmallNodes == {SmallNames[i] : i \in 1..Len(SmallNames)}
SmallMaps == UNION {[K -> SmallNodes \X SmallNodes] : K \in SUBSET SmallNodes}
SmallTapes == {<<"L">>, <<"L", "R">>}
SmallInputs == {render_puzzle(t, m, SmallNames) : t \in SmallTapes, m \in SmallMaps}

\* ring graphs: token i leaves i0A, reaches its only accepting node after
\* c[i] steps and comes back to it every c[i] steps, whatever the directive
RingStart(i) == <<Chars(i), "0", "A">>
RingNode(i, j, c) ==
    IF j = 0 THEN RingStart(i)
    ELSE IF j = c THEN <<Chars(i), Chars(c), "Z">>
    ELSE <<Chars(i), Chars(j), "B">>
RingNext(i, j, c) == RingNode(i, IF j = c THEN 1 ELSE j + 1, c)
RingLines(i, c) ==
    [j \in 1..(c + 1) |->
        render_line(RingNode(i, j - 1, c), RingNext(i, j - 1, c), RingNext(i, j - 1, c))]
RECURSIVE RingText(_, _)
RingText(cs, i) ==
    IF i > Len(cs) THEN <<>> ELSE RingLines(i, cs[i]) \o RingText(cs, i + 1)
RingTokens == 3
RingInputs ==
    {<<t, <<>>>> \o RingText(cs, 1) :
        t \in SmallTapes, cs \in UNION {[1..n -> 1..MaxRing] : n \in 1..RingTokens}}

\* example.txt, as test_parse_puzzle expects it to parse
ExampleInput ==
    <<<<"L", "L", "R">>, <<>>,
      render_line(<<"A", "A", "A">>, <<"B", "B", "B">>, <<"B", "B", "B">>),
      render_line(<<"B", "B", "B">>, <<"A", "A", "A">>, <<"Z", "Z", "Z">>),
      render_line(<<"Z", "Z", "Z">>, <<"Z", "Z", "Z">>, <<"Z", "Z", "Z">>)>>

N22A == <<"2", "2", "A">>
N11B == <<"1", "1", "B">>
N22B == <<"2", "2", "B">>
N22C == <<"2", "2", "C">>
NXXX == <<"X", "X", "X">>
\* simultanious_example.txt: 11A -> 11B -> 11Z -> 11B and
\* 22A -> 22B -> 22C -> 22Z -> 22B under the tape LR
SimultaniousExampleInput ==
    <<<<"L", "R">>, <<>>,
      render_line(N11A, N11B, NXXX),
      render_line(N11B, NXXX, N11Z),
      render_line(N11Z, N11B, NXXX),
      render_line(N22A, N22B, NXXX),
      render_line(N22B, N22C, N22C),
      render_line(N22C, N22Z, N22Z),
      render_line(N22Z, N22B, N22B),
      render_line(NXXX, NXXX, NXXX)>>

\* texts that are not a tape, an empty line and one well-formed line per node
SelfLoop == render_line(N11Z, N11Z, N11Z)
OddInputs ==
    { <<>>,                                             \* the empty file
      <<<<>>>>,                                         \* one empty line
      <<<<>>, <<>>, SelfLoop>>,                         \* an empty directive line
      <<<<>>, <<>>, render_line(N11A, N11Z, N11Z), SelfLoop>>,
      <<<<"L", "n">>, <<>>, SelfLoop>>,                 \* a character that is no direction
      <<<<"L">>, <<>>, <<"X", "X", "X", " ", "=", " ", "Y", "Y", "Y", ",", " ", "Z", "Z", "Z">>>>,
      <<<<"L">>, <<>>, SelfLoop, <<>>>>,                \* a trailing empty line
      <<<<"L">>, render_line(N11A, N11Z, N11Z), SelfLoop>>,   \* a node on the discarded line
      <<<<"R">>, <<>>, <<"x">> \o render_line(N11A, N11Z, N11A) \o <<"y">>, SelfLoop>>,
      <<<<"L">>, <<>>, render_line(N11A, N11A, N11A), render_line(N11A, N11Z, N11Z), SelfLoop>>,
      <<<<"L">>, <<>>, render_line(N11A, N11Z, N11Z), SelfLoop, render_line(N11A, N11A, N11A)>> }

Inputs == SmallInputs \cup RingInputs \cup {ExampleInput, SimultaniousExampleInput} \cup OddInputs

----------------------------------------------------------------------------
(* get_lowest_product. The lengths of the model stay far below 2^64, so    *)
(* the u64 arithmetic is modelled without its width.                       *)

RECURSIVE gcd(_, _)
\* a.gcd(b) of the gcd crate
gcd(a, b) == IF b = 0 THEN a ELSE gcd(b, a % b)

RECURSIVE reduce_gcd(_, _)
reduce_gcd(acc, vs) ==
    IF vs = <<>> THEN acc ELSE reduce_gcd(gcd(acc, Head(vs)), Tail(vs))

RECURSIVE product_over(_, _)
\* vals.iter().map(|&v| v / g).product()
product_over(vs, g) ==
    IF vs = <<>> THEN 1 ELSE (Head(vs) \div g) * product_over(Tail(vs), g)

\* get_lowest_product with the product of no numbers taken for the empty slice
get_lowest_product_empty_one(vs) ==
    IF vs = <<>> THEN Ok(1)
    ELSE LET g == reduce_gcd(Head(vs), Tail(vs))
         IN  IF g = 0 THEN Panic("attempt to divide by zero")
             ELSE Ok(product_over(vs, g) * g)

get_lowest_product(vs) ==
    IF vs = <<>> THEN Panic("No numbers supplied!")
    ELSE LET g == reduce_gcd(Head(vs), Tail(vs))
         IN  IF g = 0 THEN Panic("attempt to divide by zero")
             ELSE Ok(product_over(vs, g) * g)

\* The width of the word, scaled down from the 64 bits of u64 so that the
\* lengths of the model can exceed it.
WordBits == 8
WordMax == 2^WordBits - 1

RECURSIVE running_products(_, _, _)
\* the accumulator of product::<u64>() after each factor v / gcd
running_products(acc, vs, g) ==
    IF vs = <<>> THEN <<>>
    ELSE LET nxt == acc * (Head(vs) \div g)
         IN  <<nxt>> \o running_products(nxt, Tail(vs), g)

\* every value get_lowest_product computes on the way: the running products
\* and the product times gcd (vs is not empty and its gcd is not 0)
intermediate_values(vs) ==
    LET g == reduce_gcd(Head(vs), Tail(vs))
        ps == running_products(1, vs, g)
    IN  ps \o <<ps[Len(ps)] * g>>

----------------------------------------------------------------------------
(* The walk: count_simultanious_steps_until *)

TheMap == puzzle.val.map
TheDirections == puzzle.val.directions

all_z(cs) == \A i \in 1..Len(cs) : ends_with(cs[i], "Z")
any_z(cs) == \E i \in 1..Len(cs) : ends_with(cs[i], "Z")

\* check_fn with any() where the closures of the lock-step walks say all()
check_fn_any(cs) ==
    CASE check = "eq_tos" -> \E i \in 1..Len(cs) : cs[i] = tos[i]
      [] check = "all_z" -> any_z(cs)
      [] check = "any_z_after_first" -> IF first THEN FALSE ELSE any_z(cs)
      [] OTHER -> FALSE

\* check_fn with a closure of the second walk that does not hold `first`
check_fn_no_first(cs) ==
    CASE check = "eq_tos" -> cs = tos
      [] check = "all_z" -> all_z(cs)
      [] check = "any_z_after_first" -> any_z(cs)
      [] OTHER -> FALSE

\* check_fn of a loop that gives up after three steps
check_fn_or_cap(cs) ==
    \/ steps >= 3
    \/ CASE check = "eq_tos" -> cs = tos
          [] check = "all_z" -> all_z(cs)
          [] check = "any_z_after_first" -> IF first THEN FALSE ELSE any_z(cs)
          [] OTHER -> FALSE

\* what check_fn(&currents) returns in the current state
check_fn(cs) ==
    CASE check = "eq_tos" -> cs = tos
      [] check = "all_z" -> all_z(cs)
      [] check = "any_z_after_first" -> IF first THEN FALSE ELSE any_z(cs)
      [] OTHER -> FALSE

\* the directive indexed after steps += 1 instead of before
direction_at_late(n) == TheDirections[((n + 1) % Len(TheDirections)) + 1]

\* the index saturates at the last directive instead of wrapping around
direction_at_no_wrap(n) ==
    TheDirections[IF n < Len(TheDirections) THEN n + 1 ELSE Len(TheDirections)]

\* the directive the loop body uses at step count n
direction_at(n) == TheDirections[(n % Len(TheDirections)) + 1]

\* every token indexes the tape with a counter of its own
step_all_staggered(cs, n) ==
    [i \in 1..Len(cs) |-> step(TheMap, cs[i], direction_at(n + i - 1))]

\* currents after the for_each of the loop body
step_all(cs, n) == [i \in 1..Len(cs) |-> step(TheMap, cs[i], direction_at(n))]

NoWalk ==
    /\ froms' = <<>>
    /\ check' = "none" /\ tos' = <<>> /\ first' = FALSE
    /\ currents' = <<>> /\ steps' = 0

\* the locals of get_puzzle_loops are dropped
NoLoops ==
    /\ idx' = 0 /\ phase' = 0 /\ res' = <<>>
    /\ z_val' = <<>> /\ z_steps' = 0

\* enters count_simultanious_steps_until(froms, chk) with froms not empty
BeginWalk(fs, chk, targets, flag) ==
    /\ pc' = "walk"
    /\ froms' = fs
    /\ check' = chk /\ tos' = targets /\ first' = flag
    /\ currents' = fs /\ steps' = 0

\* the node names a caller can name: the keys and the successors of the map
NodesOf(m) == (DOMAIN m) \cup UNION {{m[k][1], m[k][2]} : k \in DOMAIN m}

\* the sequences of at most n distinct elements of S
DistinctSeqs(S, n) ==
    UNION {{q \in [1..k -> S] : \A i, j \in 1..k : i # j => q[i] # q[j]} : k \in 0..n}

\* the node names a caller passes: the three names of the small graphs and
\* the names the tests pass, where the puzzle knows them
CallNames ==
    SmallNodes \cup {<<"A", "A", "A">>, <<"Z", "Z", "Z">>, N22A}
CallNodes == CallNames \cap NodesOf(TheMap)

\* the keys that end with 'A', in every order a HashMap can yield them
a_key_orders ==
    LET a_keys == {k \in DOMAIN TheMap : ends_with(k, "A")}
    IN  {ss \in [1..Cardinality(a_keys) -> a_keys] :
            \A i, j \in 1..Cardinality(a_keys) : i # j => ss[i] # ss[j]}

TokenLists == DistinctSeqs(CallNodes, MaxTokens) \cup a_key_orders

----------------------------------------------------------------------------
(* Actions *)

\* compute_card_count is not running
NoCards == cards = <<>> /\ cards_to_process = <<>> /\ cards_processed = 0

\* compute_diff_pyramid is not running
NoPyramid == h_vals = <<>> /\ h_steps = <<>>

\* no call has been made
Idle ==
    /\ froms = <<>> /\ check = "none" /\ tos = <<>> /\ first = FALSE
    /\ currents = <<>> /\ steps = 0
    /\ starts = <<>> /\ idx = 0 /\ phase = 0 /\ res = <<>>
    /\ z_val = <<>> /\ z_steps = 0
    /\ ret = None /\ out = None

Init ==
    /\ input \in Inputs
    /\ vals = <<>>
    /\ puzzle = None
    /\ pc = "start"
    /\ op = "none"
    /\ Idle
    /\ NoCards
    /\ NoPyramid

\* Puzzle::from_str(..).unwrap() / .expect("Bad Puzzle")
FromStr ==
    /\ pc = "start"
    /\ puzzle' = from_str(input)
    /\ IF puzzle'.tag = "Some"
       THEN pc' = "ready" /\ ret' = ret
       ELSE pc' = "panic" /\ ret' = Panic("Bad Puzzle")
    /\ UNCHANGED <<hist_vars, card_vars, input, op, froms, check, tos, first, currents, steps,
                   starts, idx, phase, res, z_val, z_steps, vals, out>>

\* puzzle.count_steps(from, to)
CountSteps ==
    /\ pc = "ready"
    /\ \E from \in CallNodes, to \in CallNodes :
          BeginWalk(<<from>>, "eq_tos", <<to>>, FALSE)
    /\ op' = "count_steps"
    /\ UNCHANGED <<hist_vars, card_vars, input, puzzle, starts, idx, phase, res, z_val, z_steps, ret, vals, out>>

\* puzzle.count_simultanious_steps(froms, tos)
CountSimultaniousSteps ==
    /\ pc = "ready"
    /\ op' = "count_simultanious_steps"
    /\ \E fs \in TokenLists, targets \in TokenLists :
          IF Len(fs) # Len(targets) \/ Len(fs) = 0
          THEN /\ pc' = "done" /\ ret' = None
               /\ NoWalk
          ELSE /\ BeginWalk(fs, "eq_tos", targets, FALSE)
               /\ ret' = ret
    /\ UNCHANGED <<hist_vars, card_vars, input, puzzle, starts, idx, phase, res, z_val, z_steps, vals, out>>

\* puzzle.count_simultanious_steps_until(froms, |c| c.iter().all(|l| l.ends_with('Z')))
CountSimultaniousStepsUntil ==
    /\ pc = "ready"
    /\ op' = "count_simultanious_steps_until"
    /\ \E fs \in TokenLists :
          IF Len(fs) = 0
          THEN /\ pc' = "done" /\ ret' = None
               /\ NoWalk
          ELSE /\ BeginWalk(fs, "all_z", <<>>, FALSE)
               /\ ret' = ret
    /\ UNCHANGED <<hist_vars, card_vars, input, puzzle, starts, idx, phase, res, z_val, z_steps, vals, out>>

\* the for loop of get_puzzle_loops reaches position i of ss with res = r:
\* Ok(res) after the last start, the first walk of the next start otherwise
LoopsAt(caller, ss, i, r) ==
    /\ starts' = ss
    /\ z_val' = <<>> /\ z_steps' = 0
    /\ IF i > Len(ss)
       THEN /\ idx' = 0 /\ phase' = 0 /\ res' = <<>>
            /\ pc' = IF caller = "main" THEN "returned" ELSE "done"
            /\ ret' = Ok(r)
            /\ NoWalk
       ELSE /\ idx' = i /\ phase' = 1 /\ res' = r
            /\ BeginWalk(<<ss[i]>>, "all_z", <<>>, FALSE)
            /\ ret' = ret

\* get_puzzle_loops(&puzzle, starts)
GetPuzzleLoops ==
    /\ pc = "ready"
    /\ op' = "get_puzzle_loops"
    /\ \E ss \in TokenLists : LoopsAt("get_puzzle_loops", ss, 1, <<>>)
    /\ UNCHANGED <<hist_vars, card_vars, input, puzzle, vals, out>>

\* main: the keys that end with 'A', in the order the HashMap yields them
Main ==
    /\ pc = "ready"
    /\ op' = "main"
    /\ \E ss \in a_key_orders : LoopsAt("main", ss, 1, <<>>)
    /\ UNCHANGED <<hist_vars, card_vars, input, puzzle, vals, out>>

\* main: get_puzzle_loops(..).unwrap(), then println!(get_lowest_product(&loops))
MainPrint ==
    /\ pc = "returned" /\ op = "main"
    /\ IF ret.tag = "Ok"
       THEN /\ vals' = ret.val
            /\ out' = get_lowest_product(ret.val)
            /\ pc' = IF out'.tag = "Ok" THEN "done" ELSE "panic"
       ELSE /\ pc' = "panic"
            /\ UNCHANGED <<vals, out>>
    /\ UNCHANGED <<hist_vars, card_vars, input, puzzle, op, froms, check, tos, first, currents, steps,
                   starts, idx, phase, res, z_val, z_steps, ret>>

\* the loop body when check_fn is false: every token steps, steps += 1
WalkStep ==
    /\ pc = "walk"
    /\ ~check_fn(currents)
    /\ Len(TheDirections) # 0
    /\ \A i \in 1..Len(currents) : ~step_panics(TheMap, currents[i])
    /\ steps < MaxSteps
    /\ currents' = step_all(currents, steps)
    /\ steps' = steps + 1
    /\ first' = FALSE
    /\ UNCHANGED <<hist_vars, card_vars, input, puzzle, pc, op, froms, check, tos,
                   starts, idx, phase, res, z_val, z_steps, ret, vals, out>>

\* the loop body when check_fn is false and the tape is empty:
\* steps % self.directions.len() divides by zero
WalkPanicsOnEmptyTape ==
    /\ pc = "walk"
    /\ ~check_fn(currents)
    /\ Len(TheDirections) = 0
    /\ pc' = "panic"
    /\ ret' = Panic("attempt to calculate the remainder with a divisor of zero")
    /\ first' = FALSE
    /\ UNCHANGED <<hist_vars, card_vars, input, puzzle, op, froms, check, tos, currents, steps,
                   starts, idx, phase, res, z_val, z_steps, vals, out>>

\* a lookup miss swallowed: the token without an entry stays where it is
WalkStaysOnMissingNode ==
    /\ pc = "walk"
    /\ ~check_fn(currents)
    /\ Len(TheDirections) # 0
    /\ \E i \in 1..Len(currents) : step_panics(TheMap, currents[i])
    /\ steps < MaxSteps
    /\ currents' = [i \in 1..Len(currents) |->
                        IF step_panics(TheMap, currents[i]) THEN currents[i]
                        ELSE step(TheMap, currents[i], direction_at(steps))]
    /\ steps' = steps + 1
    /\ first' = FALSE
    /\ UNCHANGED <<hist_vars, card_vars, input, puzzle, pc, op, froms, check, tos,
                   starts, idx, phase, res, z_val, z_steps, ret, vals, out>>

\* the loop body when check_fn is false and a token stands on a node without
\* an entry: self.directions[from] panics
WalkPanicsOnMissingNode ==
    /\ pc = "walk"
    /\ ~check_fn(currents)
    /\ Len(TheDirections) # 0
    /\ \E i \in 1..Len(currents) : step_panics(TheMap, currents[i])
    /\ pc' = "panic"
    /\ ret' = Panic("key not found")
    /\ first' = FALSE
    /\ UNCHANGED <<hist_vars, card_vars, input, puzzle, op, froms, check, tos, currents, steps,
                   starts, idx, phase, res, z_val, z_steps, vals, out>>

\* check_fn is true: Some((steps, currents)) goes back to a caller that is
\* not get_puzzle_loops
WalkReturns ==
    /\ pc = "walk"
    /\ check_fn(currents)
    /\ op \in {"count_steps", "count_simultanious_steps", "count_simultanious_steps_until"}
    /\ pc' = "done"
    /\ ret' = CASE op = "count_steps" -> Value(steps)
                [] op = "count_simultanious_steps" -> Some(steps)
                [] op = "count_simultanious_steps_until" -> Some(<<steps, currents>>)
    /\ UNCHANGED <<hist_vars, card_vars, input, puzzle, op, froms, check, tos, first, currents, steps,
                   starts, idx, phase, res, z_val, z_steps, vals, out>>

\* get_puzzle_loops: the first walk of a token returns (steps, z_val) and the
\* second walk starts at z_val with first = true
LoopsFirstWalkReturns ==
    /\ pc = "walk"
    /\ check_fn(currents)
    /\ op \in {"get_puzzle_loops", "main"}
    /\ phase = 1
    /\ z_steps' = steps
    /\ z_val' = currents[1]
    /\ phase' = 2
    /\ BeginWalk(<<currents[1]>>, "any_z_after_first", <<>>, TRUE)
    /\ UNCHANGED <<hist_vars, card_vars, input, puzzle, op, starts, idx, res, ret, vals, out>>

\* the checks without the comparison of the two accepting nodes
loops_checks_no_z_check(a_steps, a_z_val, next_steps, next_z_val, n_directions) ==
    IF next_steps # a_steps
    THEN Err("Loop doesn't contain the same steps!", <<a_steps, next_steps>>)
    ELSE IF a_steps % n_directions # 0
    THEN Err("Loop doesn't conform with direction count", <<>>)
    ELSE Ok(a_steps)

\* the checks without the multiple-of-the-tape-length check
loops_checks_no_multiple_check(a_steps, a_z_val, next_steps, next_z_val, n_directions) ==
    IF next_z_val # a_z_val
    THEN Err("More than 1 Z on track!", <<a_z_val, next_z_val>>)
    ELSE IF next_steps # a_steps
    THEN Err("Loop doesn't contain the same steps!", <<a_steps, next_steps>>)
    ELSE Ok(a_steps)

\* the checks without the comparison of the two step counts
loops_checks_no_steps_check(a_steps, a_z_val, next_steps, next_z_val, n_directions) ==
    IF next_z_val # a_z_val
    THEN Err("More than 1 Z on track!", <<a_z_val, next_z_val>>)
    ELSE IF a_steps % n_directions # 0
    THEN Err("Loop doesn't conform with direction count", <<>>)
    ELSE Ok(a_steps)

\* the three checks of get_puzzle_loops on (steps, z_val) and
\* (next_steps, next_z_val): the Err it returns, or "pass"
loops_checks(a_steps, a_z_val, next_steps, next_z_val, n_directions) ==
    IF next_z_val # a_z_val
    THEN Err("More than 1 Z on track!", <<a_z_val, next_z_val>>)
    ELSE IF next_steps # a_steps
    THEN Err("Loop doesn't contain the same steps!", <<a_steps, next_steps>>)
    ELSE IF a_steps % n_directions # 0
    THEN Err("Loop doesn't conform with direction count", <<>>)
    ELSE Ok(a_steps)

\* a token that fails a check is skipped and the loop goes on
LoopsSecondWalkSkipsToken ==
    /\ pc = "walk"
    /\ check_fn(currents)
    /\ op \in {"get_puzzle_loops", "main"}
    /\ phase = 2
    /\ LET c == loops_checks(z_steps, z_val, steps, currents[1], Len(TheDirections))
       IN  IF c.tag = "Err"
           THEN LoopsAt(op, starts, idx + 1, res)
           ELSE LoopsAt(op, starts, idx + 1, Append(res, c.val))
    /\ UNCHANGED <<hist_vars, card_vars, input, puzzle, op, vals, out>>

\* get_puzzle_loops: the second walk of a token returns (next_steps, next_z_val)
LoopsSecondWalkReturns ==
    /\ pc = "walk"
    /\ check_fn(currents)
    /\ op \in {"get_puzzle_loops", "main"}
    /\ phase = 2
    /\ LET c == loops_checks(z_steps, z_val, steps, currents[1], Len(TheDirections))
       IN  IF c.tag = "Err"
           THEN /\ pc' = IF op = "main" THEN "returned" ELSE "done"
                /\ ret' = c
                /\ NoWalk /\ NoLoops
                /\ starts' = starts
           ELSE LoopsAt(op, starts, idx + 1, Append(res, c.val))
    /\ UNCHANGED <<hist_vars, card_vars, input, puzzle, op, vals, out>>

Next ==
    \/ FromStr
    \/ CountSteps
    \/ CountSimultaniousSteps
    \/ CountSimultaniousStepsUntil
    \/ GetPuzzleLoops
    \/ Main
    \/ MainPrint
    \/ WalkStep
    \/ WalkPanicsOnEmptyTape
    \/ WalkPanicsOnMissingNode
    \/ WalkReturns
    \/ LoopsFirstWalkReturns
    \/ LoopsSecondWalkReturns

Spec == Init /\ [][Next]_vars

(* The walks alone, for what they do in the long run: every graph, total or *)
(* partial, over a start node and an accepting node, the two examples and  *)
(* the malformed texts.                                                  *)

TrapNodes == {N11A, N11Z}
TrapMaps == UNION {[K -> TrapNodes \X TrapNodes] : K \in SUBSET TrapNodes}
TrapInputs == {render_puzzle(t, m, SmallNames) : t \in SmallTapes, m \in TrapMaps}
WalkInputs == TrapInputs \cup {ExampleInput, SimultaniousExampleInput} \cup OddInputs

InitWalk ==
    /\ input \in WalkInputs
    /\ vals = <<>>
    /\ puzzle = None
    /\ pc = "start"
    /\ op = "none"
    /\ Idle
    /\ NoCards
    /\ NoPyramid

\* the program is one thread: a loop that can go round or return does so
SpecWalkFair ==
    /\ InitWalk /\ [][Next]_vars
    /\ WF_vars(WalkStep)
    /\ WF_vars(WalkReturns)
    /\ WF_vars(LoopsFirstWalkReturns)
    /\ WF_vars(LoopsSecondWalkReturns)

----------------------------------------------------------------------------
(* get_lowest_product alone, on every short sequence of small lengths *)

ValSeqs == UNION {[1..n -> 0..MaxVal] : n \in 0..MaxVals}

InitCombine ==
    /\ input = <<>>
    /\ puzzle = None
    /\ pc = "ready"
    /\ op = "get_lowest_product"
    /\ Idle
    /\ NoCards
    /\ NoPyramid
    /\ vals \in ValSeqs

GetLowestProduct ==
    /\ pc = "ready" /\ op = "get_lowest_product"
    /\ out' = get_lowest_product(vals)
    /\ pc' = IF out'.tag = "Ok" THEN "done" ELSE "panic"
    /\ UNCHANGED <<hist_vars, card_vars, input, puzzle, op, froms, check, tos, first, currents, steps,
                   starts, idx, phase, res, z_val, z_steps, ret, vals>>

NextCombine == GetLowestProduct

SpecCombine == InitCombine /\ [][NextCombine]_vars

----------------------------------------------------------------------------
(* Day 4: compute_card_count. A card is its two sets of numbers; the queue *)
(* holds the indices of the cards as the code counts them, from 0.         *)

\* the most cards on the table
MaxCards == 4

Card(winning, yours) == [winning_numbers |-> winning, your_numbers |-> yours]

\* self.winning_numbers.intersection(&self.your_numbers).count()
number_overlap_count(card) ==
    Cardinality(card.winning_numbers \cap card.your_numbers)

\* the six cards of the example of the puzzle; the first is the card of
\* test_overlap_count
ExampleCards ==
    << Card({41, 48, 83, 86, 17}, {83, 86, 6, 31, 17, 9, 48, 53}),
       Card({13, 32, 20, 16, 61}, {61, 30, 68, 82, 17, 32, 24, 19}),
       Card({1, 21, 53, 59, 44}, {69, 82, 63, 72, 16, 21, 14, 1}),
       Card({41, 92, 73, 84, 69}, {59, 84, 76, 51, 58, 5, 54, 83}),
       Card({87, 83, 26, 28, 32}, {88, 30, 70, 12, 93, 22, 82, 36}),
       Card({31, 18, 13, 56, 72}, {74, 77, 10, 23, 35, 67, 36, 11}) >>

\* cards with 4, 2, 1 and 0 matching numbers
CardKinds == {ExampleCards[1], ExampleCards[2], ExampleCards[4], ExampleCards[5]}

CardLists == UNION {[1..n -> CardKinds] : n \in 0..MaxCards} \cup {ExampleCards}

\* (card_index + 1)..(card_index + overlaps), the end left out
extend_range_exclusive(card_index, overlaps) ==
    [k \in 1..(IF overlaps > 0 THEN overlaps - 1 ELSE 0) |-> card_index + k]

\* (card_index + 1)..=(card_index + overlaps)
extend_range(card_index, overlaps) == [k \in 1..overlaps |-> card_index + k]

InitCards ==
    /\ input = <<>>
    /\ puzzle = None
    /\ vals = <<>>
    /\ Idle
    /\ pc = "ready"
    /\ op = "compute_card_count"
    /\ cards \in CardLists
    /\ cards_to_process = <<>>
    /\ cards_processed = 0
    /\ NoPyramid

\* the frame of day_4: nothing of day_8 moves
CardsFrame ==
    UNCHANGED <<input, puzzle, op, froms, check, tos, first, currents, steps,
                starts, idx, phase, res, z_val, z_steps, vals, out, cards,
                hist_vars>>

\* let mut cards_to_process = (0..cards.len()).collect(); cards_processed = 0
ComputeCardCount ==
    /\ pc = "ready" /\ op = "compute_card_count"
    /\ cards_to_process' = [k \in 1..Len(cards) |-> k - 1]
    /\ cards_processed' = 0
    /\ pc' = "cards_loop"
    /\ ret' = ret
    /\ CardsFrame

\* one iteration: pop_front, extend by the cards won, cards_processed += 1
CardLoopBody ==
    /\ pc = "cards_loop"
    /\ cards_to_process # <<>>
    /\ LET card_index == Head(cards_to_process)
       IN  /\ card_index < Len(cards)
           /\ LET overlaps == number_overlap_count(cards[card_index + 1])
              IN  cards_to_process' =
                      Tail(cards_to_process) \o extend_range(card_index, overlaps)
    /\ cards_processed' = cards_processed + 1
    /\ UNCHANGED <<pc, ret>>
    /\ CardsFrame

\* one iteration on an index past the last card: cards[card_index] panics
CardLoopPanics ==
    /\ pc = "cards_loop"
    /\ cards_to_process # <<>>
    /\ Head(cards_to_process) >= Len(cards)
    /\ cards_to_process' = Tail(cards_to_process)
    /\ pc' = "panic"
    /\ ret' = Panic("index out of bounds")
    /\ UNCHANGED cards_processed
    /\ CardsFrame

\* pop_front yields None: break, and cards_processed is returned
CardLoopBreak ==
    /\ pc = "cards_loop"
    /\ cards_to_process = <<>>
    /\ pc' = "done"
    /\ ret' = Value(cards_processed)
    /\ UNCHANGED <<cards_to_process, cards_processed>>
    /\ CardsFrame

NextCards ==
    \/ ComputeCardCount
    \/ CardLoopBody
    \/ CardLoopPanics
    \/ CardLoopBreak

SpecCards == InitCards /\ [][NextCards]_vars

----------------------------------------------------------------------------
(* Day 9: compute_diff_pyramid and the two extrapolations. The values of   *)
(* the model stay far inside i32, so the subtraction is modelled without   *)
(* its width.                                                              *)

\* the longest history drawn from HistoryVals
MaxHistory == 3
HistoryVals == {-1, 0, 1, 2}

\* the histories of the tests
TestHistories ==
    { <<0, 3, 6, 9, 12, 15>>, <<1, 3, 6, 10, 15, 21>>, <<10, 13, 16, 21, 30, 45>>,
      <<-1, -4, -7>>, <<1, 4, 7>> }

Histories == UNION {[1..n -> HistoryVals] : n \in 0..MaxHistory} \cup TestHistories

\* last_steps.iter().all(|&v| v == 0): true of the empty row
all_zero(row) == \A i \in 1..Len(row) : row[i] = 0

\* new_vec: last_steps[i] - last_steps[i - 1] for i in 1..last_steps.len()
diff_row(last_steps) ==
    [i \in 1..(Len(last_steps) - 1) |-> last_steps[i + 1] - last_steps[i]]

\* v.last() / v.first() of a row
row_last(v) == IF v = <<>> THEN None ELSE Some(v[Len(v)])
row_first(v) == IF v = <<>> THEN None ELSE Some(v[1])

RECURSIVE sum_rev(_, _)
\* .iter().rev().map(|v| v.last().expect(..)).sum() over the rows 1..k
sum_rev(rows, k) ==
    IF k = 0 THEN 0 ELSE row_last(rows[k]).val + sum_rev(rows, k - 1)

RECURSIVE fold_rev(_, _, _)
\* .iter().rev().map(|v| v.first().expect(..)).fold(0, |acc, el| el - acc)
\* with the rows k down to 1 still to come and the accumulator acc
fold_rev(rows, k, acc) ==
    IF k = 0 THEN acc ELSE fold_rev(rows, k - 1, row_first(rows[k]).val - acc)

\* extrapolate_history on the finished pyramid
extrapolate_history(rows) ==
    IF \E k \in 1..Len(rows) : row_last(rows[k]).tag = "None"
    THEN Panic("All histories shouldn't be empty!")
    ELSE Value(sum_rev(rows, Len(rows)))

\* extrapolate_history_backwards on the finished pyramid
extrapolate_history_backwards(rows) ==
    IF \E k \in 1..Len(rows) : row_first(rows[k]).tag = "None"
    THEN Panic("All histories should be non-zero!")
    ELSE Value(fold_rev(rows, Len(rows), 0))

PyramidOps == {"compute_diff_pyramid", "extrapolate_history", "extrapolate_history_backwards"}

InitPyramid ==
    /\ input = <<>>
    /\ puzzle = None
    /\ vals = <<>>
    /\ Idle
    /\ NoCards
    /\ pc = "ready"
    /\ op \in PyramidOps
    /\ h_vals \in Histories
    /\ h_steps = <<>>

\* the frame of day_9: nothing of day_8 and day_4 moves
PyramidFrame ==
    UNCHANGED <<input, puzzle, op, froms, check, tos, first, currents, steps,
                starts, idx, phase, res, z_val, z_steps, vals, out, card_vars,
                h_vals>>

\* let mut steps = vec![]; steps.push(vals.into())
ComputeDiffPyramid ==
    /\ pc = "ready" /\ op \in PyramidOps
    /\ h_steps' = <<h_vals>>
    /\ pc' = "pyramid_loop"
    /\ ret' = ret
    /\ PyramidFrame

\* one iteration on a last row that is not all zeros: the row of its
\* differences is pushed
PyramidLoopPush ==
    /\ pc = "pyramid_loop"
    /\ ~all_zero(h_steps[Len(h_steps)])
    /\ h_steps' = Append(h_steps, diff_row(h_steps[Len(h_steps)]))
    /\ UNCHANGED <<pc, ret>>
    /\ PyramidFrame

\* one iteration on a last row of zeros: break steps
PyramidLoopBreak ==
    /\ pc = "pyramid_loop"
    /\ all_zero(h_steps[Len(h_steps)])
    /\ IF op = "compute_diff_pyramid"
       THEN pc' = "done" /\ ret' = Value(h_steps)
       ELSE pc' = "extrapolate" /\ ret' = ret
    /\ UNCHANGED h_steps
    /\ PyramidFrame

\* the iterator chain of extrapolate_history or extrapolate_history_backwards
Extrapolate ==
    /\ pc = "extrapolate"
    /\ ret' = IF op = "extrapolate_history"
              THEN extrapolate_history(h_steps)
              ELSE extrapolate_history_backwards(h_steps)
    /\ pc' = IF ret'.tag = "Panic" THEN "panic" ELSE "done"
    /\ UNCHANGED h_steps
    /\ PyramidFrame

NextPyramid ==
    \/ ComputeDiffPyramid
    \/ PyramidLoopPush
    \/ PyramidLoopBreak
    \/ Extrapolate

SpecPyramid == InitPyramid /\ [][NextPyramid]_vars

----------------------------------------------------------------------------
(* What the claims speak about: a token's trajectory, read off the map and *)
(* the tape of the parsed puzzle, step by step.                            *)

\* where a token is once it has left the graph
Lost == <<"?">>

\* the node after the directive of absolute step index t is applied at node
TrajectoryNext(node, t) ==
    IF Len(TheDirections) = 0 \/ node \notin DOMAIN TheMap THEN Lost
    ELSE IF TheDirections[(t % Len(TheDirections)) + 1] = "Left"
         THEN TheMap[node][1]
         ELSE TheMap[node][2]

RECURSIVE TrajectoryFrom(_, _)
TrajectoryFrom(path, n) ==
    IF Len(path) > n THEN path
    ELSE TrajectoryFrom(Append(path, TrajectoryNext(path[Len(path)], Len(path) - 1)), n)

\* <<the start, the node after 1 step, ..., the node after n steps>>
Trajectory(start, n) == TrajectoryFrom(<<start>>, n)

NodeAfter(start, k) == Trajectory(start, k)[k + 1]
PositionsAfter(fs, k) == [i \in 1..Len(fs) |-> NodeAfter(fs[i], k)]

Accepting(node) == node[Len(node)] = "Z"
AllAccepting(nodes) == \A i \in 1..Len(nodes) : Accepting(nodes[i])

\* k is the first step count at which P holds of the positions of fs
IsFirstHit(fs, k, P(_)) ==
    /\ P(PositionsAfter(fs, k))
    /\ \A j \in 0..(k - 1) : ~P(PositionsAfter(fs, j))

AtTargets(nodes) == nodes = tos

\* the step count a finished walk handed back
ReturnedSteps ==
    IF op = "count_simultanious_steps_until" THEN ret.val[1] ELSE ret.val

WalkReturned ==
    /\ pc = "done"
    /\ op \in {"count_steps", "count_simultanious_steps", "count_simultanious_steps_until"}
    /\ ret.tag \in {"Some", "Value"}

\* get_puzzle_loops has returned (main may have gone on to print)
LoopsReturned ==
    \/ op = "get_puzzle_loops" /\ pc = "done"
    \/ op = "main" /\ pc \in {"returned", "done", "panic"} /\ ret.tag \in {"Ok", "Err"}

AAA == <<"A", "A", "A">>
ZZZ == <<"Z", "Z", "Z">>

----------------------------------------------------------------------------
(* The claims *)

\* C1: whenever get_puzzle_loops has returned Ok for a non-empty list of
\* starts, get_lowest_product of the returned lengths is the first step count
\* at which every token is on an accepting node, which is what the lock-step
\* walk from the same starts returns.
C1_ProductIsFirstJointAcceptance ==
    (LoopsReturned /\ ret.tag = "Ok" /\ starts # <<>>) =>
        LET p == get_lowest_product(ret.val)
        IN  /\ p.tag = "Ok"
            /\ IsFirstHit(starts, p.val, AllAccepting)

\* C2: a walk of one token hands back the smallest step count at which its
\* predicate holds (0 at the start node) and the node after exactly that many
\* tape applications; on the example graph under LLR, AAA reaches ZZZ in 6.
C2_SingleWalkReturnsFirstHit ==
    /\ (WalkReturned /\ Len(froms) = 1) =>
          /\ ReturnedSteps = steps
          /\ currents = PositionsAfter(froms, ReturnedSteps)
          /\ IF check = "eq_tos"
             THEN IsFirstHit(froms, ReturnedSteps, AtTargets)
             ELSE IsFirstHit(froms, ReturnedSteps, AllAccepting)
    /\ (op \in {"get_puzzle_loops", "main"} /\ phase = 2) =>
          /\ IsFirstHit(<<starts[idx]>>, z_steps, AllAccepting)
          /\ z_val = NodeAfter(starts[idx], z_steps)
    /\ (WalkReturned /\ input = ExampleInput /\ op = "count_steps"
            /\ froms = <<AAA>> /\ tos = <<ZZZ>>) => ret = Value(6)

C2_Witness ==
    /\ input = ExampleInput /\ op = "count_steps" /\ pc = "done"
    /\ froms = <<AAA>> /\ tos = <<ZZZ>> /\ ret = Value(6)

\* C3: a lock-step walk of several tokens hands back the smallest step count
\* at which every token is at its target (or on an accepting node) at the
\* same step, and with the all-end-with-Z predicate the nodes at that step;
\* on the two-token example under LR that is 6 with the end nodes 11Z, 22Z.
C3_LockStepReturnsFirstJointHit ==
    /\ (WalkReturned /\ op = "count_simultanious_steps") =>
          /\ Len(froms) = Len(tos) /\ Len(froms) # 0
          /\ IsFirstHit(froms, ret.val, AtTargets)
    /\ (WalkReturned /\ op = "count_simultanious_steps_until") =>
          /\ IsFirstHit(froms, ret.val[1], AllAccepting)
          /\ ret.val[2] = PositionsAfter(froms, ret.val[1])
    /\ (WalkReturned /\ input = SimultaniousExampleInput /\ froms = <<N11A, N22A>>) =>
          /\ (op = "count_simultanious_steps" /\ tos = <<N11Z, N22Z>>) => ret = Some(6)
          /\ op = "count_simultanious_steps_until" => ret = Some(<<6, <<N11Z, N22Z>>>>)

\* the two tokens of the example are back from a joint walk of 6 steps, and
\* each alone first reaches its target earlier, after 2 and after 3 steps
C3_Witness ==
    /\ input = SimultaniousExampleInput /\ pc = "done"
    /\ op = "count_simultanious_steps"
    /\ froms = <<N11A, N22A>> /\ tos = <<N11Z, N22Z>>
    /\ ret = Some(6)
    /\ NodeAfter(N11A, 2) = N11Z
    /\ NodeAfter(N22A, 3) = N22Z

\* C4: for a non-empty sequence of positive integers get_lowest_product
\* returns their least common multiple; [4, 6] gives 12, [6] gives 6 and
\* [4, 6, 8] gives 24.
IsCommonMultiple(m, vs) == \A i \in 1..Len(vs) : m % vs[i] = 0
IsLeastCommonMultiple(m, vs) ==
    /\ m > 0
    /\ IsCommonMultiple(m, vs)
    /\ \A k \in 1..(m - 1) : ~IsCommonMultiple(k, vs)
C4_CombinerIsLeastCommonMultiple ==
    (op = "get_lowest_product" /\ pc # "ready"
        /\ vals # <<>> /\ \A i \in 1..Len(vals) : vals[i] > 0) =>
        /\ out.tag = "Ok"
        /\ IsLeastCommonMultiple(out.val, vals)
        /\ vals = <<4, 6>> => out.val = 12
        /\ vals = <<6>> => out.val = 6
        /\ vals = <<4, 6, 8>> => out.val = 24

\* the lengths get_puzzle_loops has recorded: res while the loop runs, the
\* returned vector once it has returned Ok
RecordedLengths ==
    IF LoopsReturned THEN (IF ret.tag = "Ok" THEN ret.val ELSE <<>>)
    ELSE IF op \in {"get_puzzle_loops", "main"} THEN res
    ELSE <<>>

\* the second walk of a token is about to return
SecondWalkReturning ==
    /\ pc = "walk" /\ phase = 2
    /\ op \in {"get_puzzle_loops", "main"}
    /\ check_fn(currents)

\* on the trajectory path, t is the first accepting step after step s
IsNextAcceptance(path, s, t) ==
    /\ t > s
    /\ Accepting(path[t + 1])
    /\ \A u \in (s + 1)..(t - 1) : ~Accepting(path[u + 1])

\* C5: a token whose next acceptance after the first one is at a different
\* accepting node makes get_puzzle_loops return the "More than 1 Z" error:
\* the second walk that ends on another node ends the call with that error,
\* and no length is ever recorded for a token whose trajectory comes next to
\* a different accepting node.
C5_SecondAcceptanceElsewhereIsRejected ==
    /\ [](\A i \in 1..Len(RecordedLengths) :
            LET path == Trajectory(starts[i], MaxT)
                s == RecordedLengths[i]
            IN  \A t \in (s + 1)..MaxT :
                    IsNextAcceptance(path, s, t) => path[t + 1] = path[s + 1])
    /\ [][(SecondWalkReturning /\ currents[1] # z_val) =>
            /\ pc' \in {"done", "returned"}
            /\ ret'.tag = "Err"
            /\ ret'.kind = "More than 1 Z on track!"
            /\ ret'.args = <<z_val, currents[1]>>]_vars

\* get_puzzle_loops returned the error for a token that went from its first
\* accepting node to another one
C5_Witness ==
    /\ op = "get_puzzle_loops" /\ pc = "done"
    /\ ret.tag = "Err" /\ ret.kind = "More than 1 Z on track!"
    /\ ret.args[1] # ret.args[2]
    /\ Accepting(ret.args[1]) /\ Accepting(ret.args[2])
    /\ \E i \in 1..Len(starts) : ~Accepting(starts[i])

\* C6: every length L recorded for a token is a period of its trajectory:
\* at a step t > 0 the token is on an accepting node exactly when t is a
\* multiple of L, and then always on the same node.
C6_CycleLengthIsPeriod ==
    \A i \in 1..Len(RecordedLengths) :
        LET path == Trajectory(starts[i], MaxT)
            L == RecordedLengths[i]
        IN  /\ L > 0
            /\ \A t \in 1..MaxT :
                  /\ Accepting(path[t + 1]) <=> (t % L = 0)
                  /\ (t % L = 0) => path[t + 1] = path[L + 1]

\* a length is recorded and the trajectory has gone round at least twice
C6_Witness ==
    /\ op = "get_puzzle_loops" /\ pc = "done" /\ ret.tag = "Ok"
    /\ Len(ret.val) = 1 /\ ret.val[1] = 2
    /\ Len(TheDirections) = 2
    /\ Accepting(NodeAfter(starts[1], 4))

\* the three assumptions of the analyser hold of the token that starts at
\* start: it first accepts after s steps, and from there, with the tape
\* replayed from its beginning, it next accepts after s steps on the same
\* node, and s is a multiple of the tape length
TokenIsRegular(start, s) ==
    LET z == NodeAfter(start, s)
    IN  /\ IsFirstHit(<<start>>, s, AllAccepting)
        /\ s > 0
        /\ NodeAfter(z, s) = z
        /\ \A u \in 1..(s - 1) : ~Accepting(NodeAfter(z, u))
        /\ s % Len(TheDirections) = 0

\* C7: get_puzzle_loops returns Ok with one length per start, in the order of
\* the starts, each the step count to that token's first acceptance, or an
\* Err that carries no lengths; Ok is returned only if no token violates an
\* assumption, and while the loop runs res holds the lengths of exactly the
\* tokens before the current one.
C7_AllOrNothing ==
    /\ LoopsReturned =>
          \/ /\ ret.tag = "Ok"
             /\ Len(ret.val) = Len(starts)
             /\ \A i \in 1..Len(starts) : TokenIsRegular(starts[i], ret.val[i])
          \/ /\ ret.tag = "Err"
             /\ "val" \notin DOMAIN ret
             /\ res = <<>>
    /\ (op \in {"get_puzzle_loops", "main"} /\ pc = "walk") =>
          /\ Len(res) = idx - 1
          /\ \A i \in 1..Len(res) : IsFirstHit(<<starts[i]>>, res[i], AllAccepting)

\* the first token was accepted and the second one made the call fail
C7_Witness ==
    /\ op = "get_puzzle_loops" /\ pc = "done" /\ ret.tag = "Err"
    /\ Len(starts) = 2
    /\ \E s \in 1..MaxSteps : TokenIsRegular(starts[1], s)

\* two lengths are returned in the order of the starts
C7_WitnessOk ==
    /\ op = "main" /\ pc = "returned" /\ ret.tag = "Ok"
    /\ Len(starts) = 2 /\ ret.val[1] # ret.val[2]

\* C8: get_lowest_product of no lengths fails ("No numbers supplied!") and
\* returns no number.
C8_EmptyInputFails ==
    (out.tag # "None" /\ vals = <<>>) =>
        /\ out.tag = "Panic"
        /\ out.msg = "No numbers supplied!"
        /\ pc = "panic"

C8_Witness ==
    /\ op = "get_lowest_product" /\ vals = <<>>
    /\ pc = "panic" /\ out.tag = "Panic"

\* a walk is about to step a token that stands on a node without an entry
SteppingFromMissingNode ==
    /\ pc = "walk"
    /\ ~check_fn(currents)
    /\ \E i \in 1..Len(currents) : currents[i] \notin DOMAIN TheMap

\* C9: a walk that has to step from a node without an entry panics at that
\* step (in Map::step, unless the empty tape has failed the step before the
\* lookup): it returns nothing, it steps no further, and nothing follows the
\* panic.
C9_MissingNodeIsFatal ==
    [][/\ SteppingFromMissingNode =>
            /\ pc' = "panic"
            /\ ret'.tag = "Panic"
            /\ Len(TheDirections) # 0 => ret'.msg = "key not found"
            /\ steps' = steps /\ currents' = currents
       /\ pc = "panic" => UNCHANGED vars]_vars

\* a walk that had made steps died on a node without an entry
C9_Witness ==
    /\ pc = "panic" /\ ret.tag = "Panic" /\ ret.msg = "key not found"
    /\ steps > 0
    /\ \E i \in 1..Len(currents) : currents[i] \notin DOMAIN TheMap

\* C10: no Puzzle with an empty directive sequence is constructed: from_str
\* on a text whose directive line is empty yields no Puzzle, and every walk
\* indexes a tape of length > 0.
C10_TapeNeverEmpty ==
    /\ puzzle.tag = "Some" => Len(TheDirections) > 0
    /\ (pc # "start" /\ input # <<>> /\ input[1] = <<>>) => puzzle.tag = "None"
    /\ pc = "walk" => Len(TheDirections) > 0

\* one more iteration of the loop body of the running walk
WalkAdvances == pc = "walk" /\ pc' = "walk" /\ steps' = steps + 1

\* C11: the directive used at step index i is the tape entry at i mod the
\* tape length, so on a non-empty tape the directive of step i is the
\* directive of step i + tape length; every step a walk makes at counter
\* value s moves each token as the tape entry at s mod length says, which is
\* also how the entry at s + length moves it.
C11_TapeIndexingIsPeriodic ==
    /\ []((puzzle.tag = "Some" /\ Len(TheDirections) > 0) =>
            \A i \in 0..MaxT :
                /\ direction_at(i) = TheDirections[(i % Len(TheDirections)) + 1]
                /\ direction_at(i) = direction_at(i + Len(TheDirections)))
    /\ [][WalkAdvances =>
            /\ currents' = [i \in 1..Len(currents) |-> TrajectoryNext(currents[i], steps)]
            /\ currents' = [i \in 1..Len(currents) |->
                                TrajectoryNext(currents[i], steps + Len(TheDirections))]]_vars

\* a walk under the tape LR has gone round the tape and into its second pass
C11_Witness ==
    /\ pc = "walk" /\ steps = 3
    /\ Len(TheDirections) = 2 /\ TheDirections[1] # TheDirections[2]
    /\ \E k \in DOMAIN TheMap : TheMap[k][1] # TheMap[k][2]

\* C12: for every registered node n with the entry (l, r), step(n, Left) is l
\* and step(n, Right) is r (with the entry (BBB, CCC) for AAA: BBB and CCC),
\* every step of a walk moves each token to the element of its node's entry
\* that the directive selects, and no call changes the puzzle once it is
\* built.
C12_StepIsPureLookup ==
    /\ [](puzzle.tag = "Some" =>
            \A n \in DOMAIN TheMap :
                /\ step(TheMap, n, "Left") = TheMap[n][1]
                /\ step(TheMap, n, "Right") = TheMap[n][2])
    /\ [](LET m == add_direction(EmptyMap, AAA, <<"B", "B", "B">>, <<"C", "C", "C">>)
          IN  /\ step(m, AAA, "Right") = <<"C", "C", "C">>
              /\ step(m, AAA, "Left") = <<"B", "B", "B">>)
    /\ [][WalkAdvances =>
            \A i \in 1..Len(currents) :
                currents'[i] =
                    IF TheDirections[(steps % Len(TheDirections)) + 1] = "Left"
                    THEN TheMap[currents[i]][1]
                    ELSE TheMap[currents[i]][2]]_vars
    /\ [][pc # "start" => puzzle' = puzzle]_vars

\* a token has taken the Right successor of a node whose two successors differ
C12_Witness ==
    /\ pc = "walk" /\ steps = 2
    /\ Len(TheDirections) = 2 /\ TheDirections[2] = "Right"
    /\ \E n \in DOMAIN TheMap :
          /\ TheMap[n][1] # TheMap[n][2]
          /\ NodeAfter(froms[1], 1) = n
          /\ currents[1] = TheMap[n][2]

\* the number of matching numbers of the card with index i (from 0)
Matches(i) ==
    Cardinality({x \in cards[i + 1].winning_numbers : x \in cards[i + 1].your_numbers})

RECURSIVE SumOver(_, _)
\* the sum of f[j] over the j of S
SumOver(f, S) ==
    IF S = {} THEN 0
    ELSE LET j == CHOOSE x \in S : TRUE IN f[j] + SumOver(f, S \ {j})

RECURSIVE CopiesUpTo(_)
\* copies[0..n-1]: copies[i] = 1 + the sum of copies[j] over the j < i with
\* j + matches[j] >= i
CopiesUpTo(n) ==
    IF n = 0 THEN <<>>
    ELSE LET before == CopiesUpTo(n - 1)
             i == n - 1
             winners == {j \in 0..(i - 1) : j + Matches(j) >= i}
         IN  Append(before, 1 + SumOver([j \in winners |-> before[j + 1]], winners))

CardCountReturned == op = "compute_card_count" /\ pc = "done"

\* C13: compute_card_count returns the number of card instances it processed;
\* the queue starts with every card once, every iteration on card i with m
\* matching numbers appends i+1 .. i+m and counts one instance; the number
\* returned is the sum of copies[i] with copies[i] = 1 + the sum of copies[j]
\* over the j < i with j + matches[j] >= i, and 30 for the example cards.
C13_CardCountIsSumOfCopies ==
    /\ [](CardCountReturned =>
            LET copies == CopiesUpTo(Len(cards))
            IN  /\ ret = Value(cards_processed)
                /\ ret.val = SumOver(copies, 1..Len(cards))
                /\ cards = ExampleCards => ret.val = 30)
    /\ []((op = "compute_card_count" /\ pc = "cards_loop" /\ cards_processed = 0) =>
            cards_to_process = [k \in 1..Len(cards) |-> k - 1])
    /\ [][(pc = "cards_loop" /\ cards_processed' # cards_processed) =>
            LET i == Head(cards_to_process)
            IN  /\ cards_processed' = cards_processed + 1
                /\ cards_to_process' =
                      Tail(cards_to_process) \o [k \in 1..Matches(i) |-> i + k]]_vars

\* the example cards are counted: 30 instances
C13_Witness ==
    /\ CardCountReturned /\ cards = ExampleCards
    /\ ret = Value(30)
    /\ CopiesUpTo(6) = <<1, 2, 4, 8, 14, 1>>

\* the graph is one accepting node that is its own Left and Right successor
SingleAcceptingSelfLoop(n) ==
    /\ puzzle.tag = "Some"
    /\ DOMAIN TheMap = {n}
    /\ TheMap[n] = <<n, n>>
    /\ Accepting(n)

\* C14: the second walk of a token starts on the first accepting node with
\* its first predicate evaluation forced to false, so it is about to return
\* only after at least one step; on a single accepting self-loop node the
\* first walk hands back (0, node), the second walk (1, node), and the call
\* reports the two step counts 0 and 1.
C14_SecondWalkIsForcedToAdvance ==
    /\ (pc = "walk" /\ phase = 2 /\ steps = 0) =>
          /\ currents = <<z_val>> /\ Accepting(z_val)
          /\ first /\ ~check_fn(currents)
    /\ SecondWalkReturning => (steps >= 1 /\ ~first)
    /\ \A n \in CallNames :
          (SingleAcceptingSelfLoop(n) /\ op \in {"get_puzzle_loops", "main"}
              /\ starts = <<n>>) =>
              /\ phase = 2 => (z_steps = 0 /\ z_val = n)
              /\ SecondWalkReturning => (steps = 1 /\ currents = <<n>>)
              /\ LoopsReturned =>
                    ret = Err("Loop doesn't contain the same steps!", <<0, 1>>)

\* on the self-loop node the second walk is about to return (1, node)
C14_Witness ==
    /\ SecondWalkReturning
    /\ SingleAcceptingSelfLoop(z_val)
    /\ z_steps = 0 /\ steps = 1 /\ currents = <<z_val>>

\* C15: a second walk that comes back with a step count other than the first
\* walk's ends the call with an error (the "same steps" error with both
\* counts when it ended on the same node), and every length recorded is also
\* the step count from the token's first accepting node, with the tape
\* replayed from its beginning, to the next acceptance.
C15_UnalignedCycleIsRejected ==
    /\ [](\A i \in 1..Len(RecordedLengths) :
            LET L == RecordedLengths[i]
                z == NodeAfter(starts[i], L)
            IN  /\ L >= 1
                /\ Accepting(NodeAfter(z, L))
                /\ \A u \in 1..(L - 1) : ~Accepting(NodeAfter(z, u)))
    /\ [][(SecondWalkReturning /\ steps # z_steps) =>
            /\ pc' \in {"done", "returned"}
            /\ ret'.tag = "Err"
            /\ currents[1] = z_val =>
                  /\ ret'.kind = "Loop doesn't contain the same steps!"
                  /\ ret'.args = <<z_steps, steps>>]_vars

\* the call failed on a token that needed a different number of steps to come
\* back to its accepting node than to reach it
C15_Witness ==
    /\ op = "get_puzzle_loops" /\ pc = "done"
    /\ ret.tag = "Err" /\ ret.kind = "Loop doesn't contain the same steps!"
    /\ ret.args[1] >= 1 /\ ret.args[2] > ret.args[1]

\* C16: a second walk of a token whose first step count is no multiple of the
\* tape length ends the call with an error (the "direction count" error when
\* the two other checks pass), and every length recorded is a multiple of
\* the tape length.
C16_NonMultipleOfTapeIsRejected ==
    /\ [](\A i \in 1..Len(RecordedLengths) :
            RecordedLengths[i] % Len(TheDirections) = 0)
    /\ [][(SecondWalkReturning /\ z_steps % Len(TheDirections) # 0) =>
            /\ pc' \in {"done", "returned"}
            /\ ret'.tag = "Err"
            /\ (currents[1] = z_val /\ steps = z_steps) =>
                  ret'.kind = "Loop doesn't conform with direction count"]_vars

\* the call failed on a token that accepts every 1 or every 3 steps under a
\* tape of two directives
C16_Witness ==
    /\ op = "get_puzzle_loops" /\ pc = "done"
    /\ ret.tag = "Err" /\ ret.kind = "Loop doesn't conform with direction count"
    /\ Len(TheDirections) = 2
    /\ \E i \in 1..Len(starts) : \E s \in {1, 3} :
          /\ IsFirstHit(<<starts[i]>>, s, AllAccepting)
          /\ NodeAfter(NodeAfter(starts[i], s), s) = NodeAfter(starts[i], s)

\* C17: every error get_puzzle_loops returns names the assumption that
\* failed and carries the two observed values that do not fit: the two
\* accepting nodes, the two step counts, or the step count and the tape
\* length it is no multiple of.
C17_ErrorsCarryObservedValues ==
    (LoopsReturned /\ ret.tag = "Err") =>
        /\ ret.kind \in {"More than 1 Z on track!",
                         "Loop doesn't contain the same steps!",
                         "Loop doesn't conform with direction count"}
        /\ Len(ret.args) = 2
        /\ ret.kind = "Loop doesn't conform with direction count" =>
              /\ ret.args[2] = Len(TheDirections)
              /\ ret.args[1] % ret.args[2] # 0
        /\ ret.kind # "Loop doesn't conform with direction count" =>
              ret.args[1] # ret.args[2]

\* the running call of count_simultanious_steps_until goes on
SameWalk == pc = "walk" /\ pc' = "walk" /\ phase' = phase /\ idx' = idx

\* the predicate of the running walk, of the positions nodes at step count k
PredicateAt(nodes, k) ==
    CASE check = "eq_tos" -> nodes = tos
      [] check = "all_z" -> AllAccepting(nodes)
      [] check = "any_z_after_first" ->
            k >= 1 /\ \E i \in 1..Len(nodes) : Accepting(nodes[i])
      [] OTHER -> FALSE

\* C18: in every state of a walk with counter value s each token stands on
\* the node that the first s directives of the cyclic tape lead to from its
\* own start node; every iteration moves all tokens with the one directive of
\* the counter value and adds exactly one to the counter; the predicate is
\* evaluated on the positions of that one step count.
C18_OneGlobalStepCounter ==
    /\ [](pc = "walk" =>
            /\ Len(currents) = Len(froms)
            /\ currents = PositionsAfter(froms, steps)
            /\ check_fn(currents) <=> PredicateAt(PositionsAfter(froms, steps), steps))
    /\ [][(SameWalk /\ (currents' # currents \/ steps' # steps)) =>
            /\ steps' = steps + 1
            /\ \E side \in {1, 2} :
                  /\ side = 1 <=> TheDirections[(steps % Len(TheDirections)) + 1] = "Left"
                  /\ \A i \in 1..Len(currents) :
                        currents'[i] = TheMap[currents[i]][side]]_vars

\* two tokens on different nodes, two steps into a walk under the tape LR
C18_Witness ==
    /\ pc = "walk" /\ Len(froms) = 2 /\ steps >= 2
    /\ Len(TheDirections) = 2
    /\ currents[1] # currents[2]
    /\ \E i \in 1..2 : TheMap[froms[i]][1] # TheMap[froms[i]][2]

\* the predicate of the running walk holds at some step count from k0 up to h
HitWithin(k0, h) ==
    \E k \in k0..h : PredicateAt(PositionsAfter(froms, k), k)

\* the running walk is the walk p of token i (0 and 0 outside the analyser)
WalkIs(p, i) == pc = "walk" /\ phase = p /\ idx = i

\* C19: a walk is left by a return only in a state where the predicate holds
\* of the current positions; while the predicate is false the loop does
\* nothing but step (or die on a step), whatever the step count; a walk with
\* a step count ahead (up to MaxSteps) at which the predicate holds returns,
\* and a walk inside get_puzzle_loops with no such step count (up to MaxT)
\* keeps the call from returning.
C19_WalkReturnsIffPredicateIsHit ==
    /\ [][(pc = "walk" /\ pc' # "panic" /\ ~SameWalk) =>
            /\ PredicateAt(currents, steps)
            /\ currents = PositionsAfter(froms, steps)]_vars
    /\ [][(pc = "walk" /\ ~PredicateAt(currents, steps)) =>
            \/ SameWalk /\ steps' = steps + 1
            \/ pc' = "panic"]_vars
    /\ [][(pc = "walk" /\ op \in {"get_puzzle_loops", "main"} /\ ~HitWithin(0, MaxT)) =>
            /\ pc' \in {"walk", "panic"}
            /\ ret'.tag \notin {"Ok", "Err"}
            /\ idx' = idx /\ phase' = phase]_vars
    /\ \A i \in 0..MaxTokens : \A p \in (IF i = 0 THEN {0} ELSE {1, 2}) :
          (WalkIs(p, i) /\ HitWithin(steps, MaxSteps))
              ~> (pc \in {"done", "returned"} \/ (pc = "walk" /\ ~WalkIs(p, i)))

\* a token of get_puzzle_loops is trapped where no accepting node is ever
\* reached, and its walk is still running
C19_Witness ==
    /\ pc = "walk" /\ op = "get_puzzle_loops" /\ phase = 1
    /\ steps = MaxSteps
    /\ ~HitWithin(0, MaxT)
    /\ \A k \in 0..MaxT : NodeAfter(froms[1], k) # Lost

\* the least common multiple of vs fits in the word
LcmFits(vs) == \E m \in 1..WordMax : IsCommonMultiple(m, vs)

\* C20: whenever the least common multiple of the lengths fits in the word,
\* no value get_lowest_product computes on the way exceeds the word.
C20_NoIntermediateOverflow ==
    (op = "get_lowest_product" /\ pc # "ready"
        /\ vals # <<>> /\ (\A i \in 1..Len(vals) : vals[i] > 0)
        /\ LcmFits(vals)) =>
        \A i \in 1..Len(intermediate_values(vals)) :
            intermediate_values(vals)[i] <= WordMax

\* the line is exactly "FFF = (LLL, RRR)"
WellFormedLine(line) ==
    /\ Len(line) = 16
    /\ line = render_line(SubSeq(line, 1, 3), SubSeq(line, 8, 10), SubSeq(line, 13, 15))

\* the node lines i < j of the text name the same node
DuplicateKeyAt(i, j) ==
    /\ 3 <= i /\ i < j /\ j <= Len(input)
    /\ WellFormedLine(input[i]) /\ WellFormedLine(input[j])
    /\ SubSeq(input[i], 1, 3) = SubSeq(input[j], 1, 3)

\* C21: a text in which a later line names a node that has an entry already
\* is rejected, and no entry of a graph that was built is that of the later
\* line: the entry of the first line stays.
C21_DuplicateNodeIsRejected ==
    pc # "start" =>
        /\ (\E i, j \in 1..Len(input) : DuplicateKeyAt(i, j)) => puzzle.tag = "None"
        /\ puzzle.tag = "Some" =>
              \A i \in 3..Len(input) :
                  (WellFormedLine(input[i]) /\ \A h \in 3..(i - 1) : ~DuplicateKeyAt(h, i)) =>
                      TheMap[SubSeq(input[i], 1, 3)] =
                          <<SubSeq(input[i], 8, 10), SubSeq(input[i], 13, 15)>>

\* compute_diff_pyramid has handed back its rows
PyramidBuilt == op \in PyramidOps /\ pc \in {"extrapolate", "done", "panic"}

\* C22: for a history that is not empty the pyramid that compute_diff_pyramid
\* hands back ends with a row of zeros, none of its rows is empty, and
\* neither extrapolation fails its expectation.
C22_PyramidRowsAreNeverEmpty ==
    (op \in PyramidOps /\ h_vals # <<>>) =>
        /\ PyramidBuilt =>
              /\ \A k \in 1..Len(h_steps) : h_steps[k] # <<>>
              /\ \A i \in 1..Len(h_steps[Len(h_steps)]) : h_steps[Len(h_steps)][i] = 0
        /\ pc # "panic"
        /\ ret.tag # "Panic"

\* C23: every index compute_card_count takes off the queue is an index of
\* the card list, whatever the matches of the last cards, and the loop never
\* dies on the way to the empty queue.
C23_PoppedIndicesAreValid ==
    op = "compute_card_count" =>
        /\ \A k \in 1..Len(cards_to_process) : cards_to_process[k] < Len(cards)
        /\ pc # "panic"

====
